---- MODULE Spec2Model ----
(***************************************************************************)
(* Model of the http crate's umbrella error (src/error.rs) and of the      *)
(* if_downcast_into! macro (src/convert.rs).                               *)
(*                                                                         *)
(* Text is modelled as a sequence of tokens; a token is a string that is   *)
(* written to a formatter in one piece.  Option<T> is modelled as a        *)
(* sequence of length 0 (None) or 1 (Some).                                *)
(*                                                                         *)
(* Error does not use the macro and the macro does not use Error: they     *)
(* share no state, so a behaviour exercises one of the two, either         *)
(* building an Error and inspecting it or running one macro invocation.    *)
(***************************************************************************)
EXTENDS Integers, Sequences, FiniteSets, TLC

VARIABLES
    alloc,        \* cfg(feature = "alloc") of the build
    orig,         \* Option: the concrete error value handed to From::from
    err,          \* Option: the Error that From::from returned
    out,          \* the result of the last inspection operation on err
    in_ty,        \* $in_ty of the macro invocation
    out_ty,       \* $out_ty of the macro invocation
    given,        \* the value the caller owned when it invoked the macro
    bodyReturns,  \* whether the caller's $body ends in `return`
    pc,           \* position inside the expansion of if_downcast_into!
    val,          \* Option: the caller's binding $val (None once moved out)
    slot,         \* Option<Option<$in_ty>>: the local `slot`, absent outside its scope
    narrowed,     \* Option: the re-bound $val, typed $out_ty, inside the if-block
    bodySaw,      \* the values $body was run with, in order
    genericSaw,   \* what the code after the invocation found in $val, per run
    panicked      \* TRUE once an unwrap() has panicked

errVars  == <<orig, err, out>>
convVars == <<in_ty, out_ty, given, bodyReturns, pc, val, slot, narrowed,
              bodySaw, genericSaw, panicked>>
vars     == <<alloc, errVars, convVars>>

\* ------------------------------------------------------------------ bounds
\* Number of distinct payloads a concrete error value may carry.
MaxDetail == 2
\* Number of distinct causes a concrete error value may chain to.
MaxCause == 1
\* Deepest Option<..> nesting of the types handed to the macro.
MaxOptDepth == 1
\* Number of distinct values handed to the macro.
MaxData == 2

\* ----------------------------------------------------------------- Option
None == <<>>
Some(v) == <<v>>
IsSome(o) == Len(o) = 1
Unwrapped(o) == o[1]

\* ------------------------------------------------------------------ types
\* A type is <<name, d>>: `name` wrapped in d layers of Option<..>.
ErrorTypes ==
    <<"InvalidStatusCode", "InvalidMethod", "InvalidUri", "InvalidUriParts",
      "InvalidHeaderName", "InvalidHeaderValue", "MaxSizeReached">>
ValueTypes == <<"Bytes", "String", "Vec", "Str">>
TypeNames == ErrorTypes \o ValueTypes \o <<"OtherError">>

IndexOf(name) == CHOOSE i \in 1..Len(TypeNames) : TypeNames[i] = name

Ty(name) == <<name, 0>>
OptionOf(t) == <<t[1], t[2] + 1>>

\* core::any::TypeId::of::<T>(): a number that identifies T.
TypeIdOf(t) == IndexOf(t[1]) + Len(TypeNames) * t[2]


\* core::any::TypeId equality, as `==` on two TypeId values.
TypeIdEq(a, b) == TypeIdOf(a) = TypeIdOf(b)

\* ------------------------------------------------- concrete error values
\* The causes a concrete error value may chain to: errors of a type that is
\* none of the supported ones, themselves without a cause.
Causes ==
    { [ty |-> Ty("OtherError"), detail |-> k, cause |-> None] : k \in 1..MaxCause }

\* The values of the concrete error type named `name`.
ConcreteValues(name) ==
    [ty : {Ty(name)}, detail : 1..MaxDetail,
     cause : {None} \cup { Some(c) : c \in Causes }]

\* &(dyn error::Error + 'static): the data pointer and the type whose
\* vtable the reference carries.
DynRef(t, e) == [ty |-> t, data |-> e]

Digit == <<"0", "1", "2", "3", "4", "5", "6", "7", "8", "9">>

Message(t) ==
    CASE t = Ty("InvalidStatusCode")  -> "invalid status code"
      [] t = Ty("InvalidMethod")      -> "invalid HTTP method"
      [] t = Ty("InvalidUri")         -> "invalid uri"
      [] t = Ty("InvalidUriParts")    -> "invalid uri parts"
      [] t = Ty("InvalidHeaderName")  -> "invalid HTTP header name"
      [] t = Ty("InvalidHeaderValue") -> "failed to parse header value"
      [] t = Ty("MaxSizeReached")     -> "max size reached"
      [] OTHER                        -> "other error"

\* <e as fmt::Display>::fmt of a concrete error value.
Concrete_Display(e) == <<Message(e.ty), ": ", Digit[e.detail + 1]>>

\* <e as error::Error>::source of a concrete error value.
Concrete_source(e) ==
    IF IsSome(e.cause)
    THEN Some(DynRef(Unwrapped(e.cause).ty, Unwrapped(e.cause)))
    ELSE None

\* ------------------------------------------------------ core::fmt builders
\* fmt::builders::PadAdapter: four spaces in front of every line written
\* through it.
RECURSIVE PadAdapter(_, _)
PadAdapter(text, on_newline) ==
    IF text = <<>> THEN <<>>
    ELSE (IF on_newline THEN <<"    ">> ELSE <<>>)
         \o <<Head(text)>>
         \o PadAdapter(Tail(text), Head(text) = "\n")

\* f.debug_tuple(name).field(v).finish(), `field` being what v's Debug
\* writes; `alternate` is the formatter's {:#?} flag.
DebugTuple(name, field, alternate) ==
    IF alternate
    THEN <<name, "(", "\n">> \o PadAdapter(field \o <<",", "\n">>, TRUE) \o <<")">>
    ELSE <<name, "(">> \o field \o <<")">>

\* <e as fmt::Debug>::fmt of a concrete error value.
Concrete_Debug(e, alternate) ==
    DebugTuple(e.ty[1], <<Digit[e.detail + 1]>>, alternate)

\* <dyn error::Error>::is::<T>() and downcast_ref::<T>().
Dyn_is(r, T) == TypeIdEq(r.ty, T)
Dyn_downcast_ref(r, T) == IF Dyn_is(r, T) THEN Some(r.data) ELSE None

\* ------------------------------------------------------ ErrorKind / Error
\* The types the build knows: the cfg(feature = "alloc") ones only with alloc.
AllocTypes == {"InvalidUri", "InvalidUriParts", "InvalidHeaderValue", "MaxSizeReached"}
SupportedTypes(a) ==
    { Ty(ErrorTypes[i]) : i \in { j \in 1..Len(ErrorTypes) :
                                     a \/ ErrorTypes[j] \notin AllocTypes } }

\* The arm of ErrorKind declared for each concrete type.
ArmOf(t) ==
    CASE t = Ty("InvalidStatusCode")  -> "StatusCode"
      [] t = Ty("InvalidMethod")      -> "Method"
      [] t = Ty("InvalidUri")         -> "Uri"
      [] t = Ty("InvalidUriParts")    -> "UriParts"
      [] t = Ty("InvalidHeaderName")  -> "HeaderName"
      [] t = Ty("InvalidHeaderValue") -> "HeaderValue"
      [] t = Ty("MaxSizeReached")     -> "MaxSizeReached"

ErrorKind(tag, e) == [tag |-> tag, val |-> e]
Error(kind) == [inner |-> kind]

From_MaxSizeReached(e)     == Error(ErrorKind("MaxSizeReached", e))
From_InvalidStatusCode(e)  == Error(ErrorKind("StatusCode", e))
From_InvalidMethod_Slip(e) == Error(ErrorKind("StatusCode", e))
From_InvalidMethod(e)      == Error(ErrorKind("Method", e))
From_InvalidUri(e)         == Error(ErrorKind("Uri", e))
From_InvalidUriParts(e)    == Error(ErrorKind("UriParts", e))
From_InvalidHeaderName(e)  == Error(ErrorKind("HeaderName", e))
From_InvalidHeaderValue(e) == Error(ErrorKind("HeaderValue", e))

\* From<core::convert::Infallible>: `match err {}` over a type without
\* values; no call of it can happen.
Infallible == {}

\* Error::get_ref with the arms of neighbouring types crossed.
get_ref_Crossed(self) ==
    LET k == self.inner IN
    CASE k.tag = "StatusCode"     -> DynRef(Ty("InvalidStatusCode"), k.val)
      [] k.tag = "Method"         -> DynRef(Ty("InvalidMethod"), k.val)
      [] k.tag = "Uri"            -> DynRef(Ty("InvalidUriParts"), k.val)
      [] k.tag = "UriParts"       -> DynRef(Ty("InvalidUri"), k.val)
      [] k.tag = "HeaderName"     -> DynRef(Ty("InvalidHeaderValue"), k.val)
      [] k.tag = "HeaderValue"    -> DynRef(Ty("InvalidHeaderName"), k.val)
      [] k.tag = "MaxSizeReached" -> DynRef(Ty("MaxSizeReached"), k.val)

\* Error::get_ref: each arm coerces its own concrete reference to dyn Error.
get_ref(self) ==
    LET k == self.inner IN
    CASE k.tag = "StatusCode"     -> DynRef(Ty("InvalidStatusCode"), k.val)
      [] k.tag = "Method"         -> DynRef(Ty("InvalidMethod"), k.val)
      [] k.tag = "Uri"            -> DynRef(Ty("InvalidUri"), k.val)
      [] k.tag = "UriParts"       -> DynRef(Ty("InvalidUriParts"), k.val)
      [] k.tag = "HeaderName"     -> DynRef(Ty("InvalidHeaderName"), k.val)
      [] k.tag = "HeaderValue"    -> DynRef(Ty("InvalidHeaderValue"), k.val)
      [] k.tag = "MaxSizeReached" -> DynRef(Ty("MaxSizeReached"), k.val)

\* Error::is::<T>()
Error_is(self, T) == Dyn_is(get_ref(self), T)

\* Error::source returning the inner error itself as the cause.
Error_source_Inner(self) == Some(get_ref(self))

\* <Error as error::Error>::source
Error_source(self) == Concrete_source(get_ref(self).data)

\* <Error as fmt::Display>::fmt with a prefix of its own.
Error_Display_Prefixed(self) ==
    <<"http::Error", ": ">> \o Concrete_Display(get_ref(self).data)

\* <Error as fmt::Display>::fmt: what it writes to the formatter.
Error_Display(self) == Concrete_Display(get_ref(self).data)

\* <Error as fmt::Debug>::fmt as #[derive(Debug)] would write it.
Error_Debug_Derived(self, alternate) ==
    DebugTuple("http::Error",
               DebugTuple(self.inner.tag,
                          Concrete_Debug(self.inner.val, alternate), alternate),
               alternate)

\* <Error as fmt::Debug>::fmt: what it writes to the formatter.
Error_Debug(self, alternate) ==
    DebugTuple("http::Error", Concrete_Debug(get_ref(self).data, alternate),
               alternate)

\* ------------------------------------------------------------ if_downcast_into!
\* The types a generic caller may instantiate $in_ty and $out_ty with.
MacroTypes == { <<ValueTypes[i], d>> : i \in 1..Len(ValueTypes), d \in 0..MaxOptDepth }

\* A value of type t.
Value(t, d) == [ty |-> t, data |-> d]

\* The condition of the `if` with the Option<..> layers ignored.
TypesMatch_Loose(a, b) == a[1] = b[1]

\* TypeId::of::<$in_ty>() == TypeId::of::<$out_ty>()
TypesMatch(a, b) == TypeIdEq(a, b)

\* The downcast aimed at $out_ty itself.
DowncastTarget_Bare(b) == b

\* The type downcast_mut is asked for: Option<$out_ty>.
DowncastTarget(b) == OptionOf(b)

\* <dyn Any>::downcast_mut::<T>() on a holder of type `held`.
Any_downcast_mut(held, T) == TypeIdEq(held, T)

\* The number of places that own the caller's value.
Owners ==
    (IF IsSome(val) THEN 1 ELSE 0)
    + (IF IsSome(slot) /\ IsSome(Unwrapped(slot).content) THEN 1 ELSE 0)
    + (IF IsSome(narrowed) THEN 1 ELSE 0)
    + Len(bodySaw)

\* ------------------------------------------------------------------- Init
NoOutput == [op |-> "none"]

Init ==
    /\ alloc \in BOOLEAN
    /\ orig = None
    /\ err = None
    /\ out = NoOutput
    /\ in_ty = None
    /\ out_ty = None
    /\ given = None
    /\ bodyReturns = FALSE
    /\ pc = "idle"
    /\ val = None
    /\ slot = None
    /\ narrowed = None
    /\ bodySaw = <<>>
    /\ genericSaw = <<>>
    /\ panicked = FALSE

\* -------------------------------------------------- actions of the facade
\* A caller converts the concrete value e; From::from cannot fail.
Construct(e, built) ==
    /\ pc = "idle"
    /\ err = None
    /\ orig' = Some(e)
    /\ err' = Some(built)
    /\ UNCHANGED <<alloc, out, convVars>>

ConvertMaxSizeReached ==
    /\ alloc
    /\ \E e \in ConcreteValues("MaxSizeReached") : Construct(e, From_MaxSizeReached(e))

ConvertInvalidStatusCode ==
    \E e \in ConcreteValues("InvalidStatusCode") : Construct(e, From_InvalidStatusCode(e))

ConvertInvalidMethod ==
    \E e \in ConcreteValues("InvalidMethod") : Construct(e, From_InvalidMethod(e))

ConvertInvalidUri ==
    /\ alloc
    /\ \E e \in ConcreteValues("InvalidUri") : Construct(e, From_InvalidUri(e))

ConvertInvalidUriParts ==
    /\ alloc
    /\ \E e \in ConcreteValues("InvalidUriParts") : Construct(e, From_InvalidUriParts(e))

ConvertInvalidHeaderName ==
    \E e \in ConcreteValues("InvalidHeaderName") : Construct(e, From_InvalidHeaderName(e))

ConvertInvalidHeaderValue ==
    /\ alloc
    /\ \E e \in ConcreteValues("InvalidHeaderValue") : Construct(e, From_InvalidHeaderValue(e))

\* An inspection through &self: the Error is borrowed, the result recorded.
Inspect(result) ==
    /\ err # None
    /\ out' = result
    /\ UNCHANGED <<alloc, orig, err, convVars>>

\* The types a caller may name in is::<T>() and downcast_ref::<T>().
AskedTypes == SupportedTypes(alloc) \cup {Ty("OtherError")}

\* get_ref() that moves the value out of the Error.
GetRef_Taking ==
    /\ err # None
    /\ out' = [op |-> "get_ref", res |-> get_ref(Unwrapped(err))]
    /\ err' = None
    /\ UNCHANGED <<alloc, orig, convVars>>

GetRef == Inspect([op |-> "get_ref", res |-> get_ref(Unwrapped(err))])

Is == \E T \in AskedTypes :
    Inspect([op |-> "is", T |-> T, res |-> Error_is(Unwrapped(err), T)])

DowncastRef == \E T \in AskedTypes :
    Inspect([op |-> "downcast_ref", T |-> T,
             res |-> Dyn_downcast_ref(get_ref(Unwrapped(err)), T)])

Source == Inspect([op |-> "source", res |-> Error_source(Unwrapped(err))])

Display == Inspect([op |-> "Display", res |-> Error_Display(Unwrapped(err))])

Debug == \E alternate \in BOOLEAN :
    Inspect([op |-> "Debug", alternate |-> alternate,
             res |-> Error_Debug(Unwrapped(err), alternate)])

\* ------------------------------------------- actions of if_downcast_into!
\* A generic function instantiated with $in_ty = a is called with a value
\* of that type and reaches the macro invocation, whose target type is b.
\* The macro exists only in builds with the alloc feature.
Invoke ==
    /\ alloc
    /\ pc = "idle"
    /\ err = None
    /\ \E a \in MacroTypes, b \in MacroTypes, d \in 1..MaxData, r \in BOOLEAN :
        /\ in_ty' = a
        /\ out_ty' = b
        /\ given' = Value(a, d)
        /\ val' = Some(Value(a, d))
        /\ bodyReturns' = r
    /\ pc' = "check"
    /\ UNCHANGED <<alloc, errVars, slot, narrowed, bodySaw, genericSaw, panicked>>

\* line 4: the `if` on the two TypeIds.
TypeCheck ==
    /\ pc = "check"
    /\ pc' = IF TypesMatch(in_ty, out_ty) THEN "store" ELSE "after"
    /\ UNCHANGED <<alloc, errVars, in_ty, out_ty, given, bodyReturns, val, slot,
                   narrowed, bodySaw, genericSaw, panicked>>

\* line 7: let mut slot = Some($val); the value moves out of $val.
StoreSlot ==
    /\ pc = "store"
    /\ slot' = Some([ty |-> OptionOf(in_ty), content |-> val])
    /\ val' = None
    /\ pc' = "downcast"
    /\ UNCHANGED <<alloc, errVars, in_ty, out_ty, given, bodyReturns, narrowed,
                   bodySaw, genericSaw, panicked>>

\* lines 9-11: (&mut slot as &mut dyn Any).downcast_mut::<Option<$out_ty>>().unwrap()
Downcast ==
    /\ pc = "downcast"
    /\ IF Any_downcast_mut(Unwrapped(slot).ty, DowncastTarget(out_ty))
       THEN pc' = "take" /\ UNCHANGED panicked
       ELSE pc' = "panic" /\ panicked' = TRUE
    /\ UNCHANGED <<alloc, errVars, in_ty, out_ty, given, bodyReturns, val, slot,
                   narrowed, bodySaw, genericSaw>>

\* The value read out of the slot without emptying it (a clone, not a take).
Take_Cloning ==
    /\ pc = "take"
    /\ LET taken == Unwrapped(slot).content IN
        /\ IF IsSome(taken)
           THEN /\ narrowed' = Some(Value(out_ty, Unwrapped(taken).data))
                /\ pc' = "body"
                /\ UNCHANGED panicked
           ELSE /\ pc' = "panic"
                /\ panicked' = TRUE
                /\ UNCHANGED narrowed
    /\ UNCHANGED <<alloc, errVars, in_ty, out_ty, given, bodyReturns, val, slot,
                   bodySaw, genericSaw>>

\* lines 12-13: .take().unwrap(), bound to the new $val of type $out_ty.
Take ==
    /\ pc = "take"
    /\ LET taken == Unwrapped(slot).content IN
        /\ slot' = Some([Unwrapped(slot) EXCEPT !.content = None])
        /\ IF IsSome(taken)
           THEN /\ narrowed' = Some(Value(out_ty, Unwrapped(taken).data))
                /\ pc' = "body"
                /\ UNCHANGED panicked
           ELSE /\ pc' = "panic"
                /\ panicked' = TRUE
                /\ UNCHANGED narrowed
    /\ UNCHANGED <<alloc, errVars, in_ty, out_ty, given, bodyReturns, val,
                   bodySaw, genericSaw>>

\* $body run inside a closure, so that its `return` leaves only the closure.
Body_InClosure ==
    /\ pc = "body"
    /\ bodySaw' = Append(bodySaw, Unwrapped(narrowed))
    /\ narrowed' = None
    /\ slot' = None
    /\ pc' = "after"
    /\ UNCHANGED <<alloc, errVars, in_ty, out_ty, given, bodyReturns, val,
                   genericSaw, panicked>>

\* line 15: $body, with the new $val in scope; it takes the value.  A body
\* that ends in `return` leaves the enclosing function, any other body
\* falls out of the `if` block.  Either way `slot` goes out of scope.
Body ==
    /\ pc = "body"
    /\ bodySaw' = Append(bodySaw, Unwrapped(narrowed))
    /\ narrowed' = None
    /\ slot' = None
    /\ pc' = IF bodyReturns THEN "returned" ELSE "after"
    /\ UNCHANGED <<alloc, errVars, in_ty, out_ty, given, bodyReturns, val,
                   genericSaw, panicked>>

\* The code that follows the invocation: the generic path, which reads
\* $val where the binding still owns the value.
Generic ==
    /\ pc = "after"
    /\ genericSaw' = Append(genericSaw, val)
    /\ pc' = "done"
    /\ UNCHANGED <<alloc, errVars, in_ty, out_ty, given, bodyReturns, val, slot,
                   narrowed, bodySaw, panicked>>

\* ------------------------------------------------------------------- Next
Next ==
    \/ ConvertMaxSizeReached
    \/ ConvertInvalidStatusCode
    \/ ConvertInvalidMethod
    \/ ConvertInvalidUri
    \/ ConvertInvalidUriParts
    \/ ConvertInvalidHeaderName
    \/ ConvertInvalidHeaderValue
    \/ GetRef
    \/ Is
    \/ DowncastRef
    \/ Source
    \/ Display
    \/ Debug
    \/ Invoke
    \/ TypeCheck
    \/ StoreSlot
    \/ Downcast
    \/ Take
    \/ Body
    \/ Generic

Spec == Init /\ [][Next]_vars

\* ----------------------------------------------------------------- claims
Built == err # None
TheError == Unwrapped(err)
TheOriginal == Unwrapped(orig)

\* C1: an Error built from a value of type T answers is::<T>() = true and
\* is::<U>() = false for every other type U, whichever From impl built it.
C1_IsExactlyTheOriginType ==
    /\ Built => \A T \in AskedTypes :
                   Error_is(TheError, T) <=> (T = TheOriginal.ty)
    /\ out.op = "is" => (out.res <=> (out.T = TheOriginal.ty))

C1_Witness ==
    /\ out.op = "is"
    /\ out.T = Ty("InvalidStatusCode")
    /\ out.res = TRUE

\* C2: get_ref() of Error::from(e) downcasts to e's type, never to None,
\* and reaches a value equal to e.
C2_RoundTrip ==
    /\ Built => /\ get_ref(TheError).ty = TheOriginal.ty
                /\ Dyn_downcast_ref(get_ref(TheError), TheOriginal.ty)
                       = Some(TheOriginal)
    /\ (out.op = "downcast_ref" /\ out.T = TheOriginal.ty)
           => out.res = Some(TheOriginal)

C2_Witness ==
    /\ out.op = "downcast_ref"
    /\ out.T = Ty("InvalidUriParts")
    /\ IsSome(out.res)

\* C3: Error::source() returns what the wrapped value's source() returns,
\* None when it has no cause, and never the wrapped value itself.
C3_SourceIsTheValuesSource ==
    /\ Built => /\ Error_source(TheError) = Concrete_source(TheOriginal)
                /\ Error_source(TheError) # Some(get_ref(TheError))
                /\ (TheOriginal.cause = None => Error_source(TheError) = None)
    /\ out.op = "source" => out.res = Concrete_source(TheOriginal)

C3_Witness ==
    /\ out.op = "source"
    /\ IsSome(out.res)
    /\ Some(Unwrapped(out.res).data) = TheOriginal.cause

\* C4: the Display output of the Error is the Display output of the wrapped
\* value, with nothing before or after it.
C4_DisplayIsTheValuesDisplay ==
    /\ Built => Error_Display(TheError) = Concrete_Display(TheOriginal)
    /\ out.op = "Display" => out.res = Concrete_Display(TheOriginal)

C4_Witness ==
    /\ out.op = "Display"
    /\ out.res = <<"invalid HTTP header name", ": ", "2">>

\* C5 as claimed: the Debug output of the Error is the Debug output of the
\* wrapped value, the wrapper adding no text of its own.
C5_DebugIsTheValuesDebug ==
    out.op = "Debug" => out.res = Concrete_Debug(TheOriginal, out.alternate)

\* C5 as amended: the Debug output of the Error is the Debug output of the
\* wrapped value framed by the wrapper's own name, "http::Error(" before it
\* and ")" after it; under {:#?} the wrapped value's output stands on
\* lines of its own, each indented by four spaces, and is followed by ",".  The name of the
\* ErrorKind arm is not part of the output.
C5_DebugFramesTheValuesDebug ==
    out.op = "Debug" =>
        LET inner == Concrete_Debug(TheOriginal, out.alternate)
            n == Len(out.res)
        IN  IF out.alternate
            THEN /\ n >= 6
                 /\ SubSeq(out.res, 1, 3) = <<"http::Error", "(", "\n">>
                 /\ SubSeq(out.res, n - 2, n) = <<",", "\n", ")">>
                 /\ SubSeq(out.res, 4, n - 3) = PadAdapter(inner, TRUE)
            ELSE out.res = <<"http::Error", "(">> \o inner \o <<")">>

C5_Witness ==
    /\ out.op = "Debug"
    /\ ~out.alternate
    /\ out.res = <<"http::Error", "(", "InvalidStatusCode", "(", "1", ")", ")">>

C7_MismatchLeavesTheValue ==
    (pc # "idle" /\ in_ty # out_ty) =>
        /\ bodySaw = <<>>
        /\ val = Some(given)
        /\ slot = None
        /\ narrowed = None
        /\ pc \in {"check", "after", "done"}
        /\ pc = "done" => genericSaw = <<Some(given)>>

C7_Witness ==
    /\ pc = "done"
    /\ in_ty = OptionOf(out_ty)
    /\ bodySaw = <<>>
    /\ genericSaw = <<Some(given)>>

\* C8 as claimed: when the types match, the body and the code that follows
\* the invocation are never both executed.
C8_MatchSkipsTheGenericPath ==
    (pc # "idle" /\ in_ty = out_ty) => ~(bodySaw # <<>> /\ genericSaw # <<>>)

\* C8 as amended: the macro transfers control nowhere.  When the types
\* match, the code that follows the invocation is skipped if and only if
\* the body itself leaves the enclosing function (it ends in `return`); a
\* body that completes falls through to the code that follows.
C8_SkipIsTheBodysReturn ==
    (pc # "idle" /\ in_ty = out_ty) =>
        /\ bodyReturns => (genericSaw = <<>> /\ pc \notin {"after", "done"})
        /\ (~bodyReturns /\ pc = "done") => (Len(bodySaw) = 1 /\ Len(genericSaw) = 1)
        /\ pc = "returned" => bodyReturns

C8_Witness ==
    /\ pc = "returned"
    /\ bodyReturns
    /\ Len(bodySaw) = 1
    /\ genericSaw = <<>>

\* C9: a built Error holds one concrete value, in the arm declared for the
\* value's type, and it is the constructor's value after any inspection.
C9_OneValueNeverAltered ==
    /\ Built <=> orig # None
    /\ out.op # "none" => Built
    /\ Built => /\ TheError.inner.val = TheOriginal
                /\ TheError.inner.tag = ArmOf(TheOriginal.ty)
                /\ TheOriginal.ty \in SupportedTypes(alloc)
                /\ get_ref(TheError).data = TheOriginal

C9_Witness ==
    /\ out.op = "get_ref"
    /\ Built
    /\ TheError.inner = ErrorKind("MaxSizeReached", TheOriginal)

\* C10: no unwrap() of the macro panics: where the TypeId test passes the
\* slot narrows to Option<$out_ty> and holds the value when it is taken;
\* where the test fails neither unwrap is reached.
C10_NeverPanics ==
    /\ ~panicked
    /\ pc # "panic"
    /\ pc = "downcast" =>
           Any_downcast_mut(Unwrapped(slot).ty, DowncastTarget(out_ty))
    /\ pc = "take" => IsSome(Unwrapped(slot).content)
    /\ (pc # "idle" /\ in_ty # out_ty) => pc \notin {"store", "downcast", "take", "body"}

C10_Witness ==
    /\ pc = "body"
    /\ ~panicked
    /\ in_ty = OptionOf(Ty("Bytes"))

====
